---------------------------- MODULE Spec2Model ----------------------------
(***************************************************************************)
(* Model of app.py: a Flask backend with signup/login over one shared      *)
(* SQLAlchemy session, and a mood-based movie recommendation endpoint over *)
(* a CSV dataset loaded once at import time.                               *)
(*                                                                         *)
(* Text that the code inspects character by character (the genres column   *)
(* and the genre keywords) is a tuple of one-character strings, so that    *)
(* split / strip / lower / "in" are computed as Python computes them.      *)
(* Text the code only copies or compares whole is a TLA+ string.           *)
(***************************************************************************)
EXTENDS Integers, Sequences, FiniteSets, TLC

VARIABLES
    phase,              \* "import" | "serving" | "exited": position of the process
    csv,                \* the movies.csv file found on disk at import time
    movies,             \* the DataFrame `movies` (rows in file order)
    emotion_to_genres,  \* the dict built at import time
    omdb_calls,         \* the OMDb lookups made by the /recommend request being answered
    users,              \* committed rows of table `users`
    session,            \* state of the one module-level Session's transaction
    pc,                 \* per worker thread: position inside signup()
    local,              \* per worker thread: email/password of the signup in progress
    resp                \* the HTTP response being returned, NoResponse once sent

vars == <<phase, csv, movies, emotion_to_genres, omdb_calls, users, session, pc, local, resp>>

movie_vars == <<phase, csv, movies, emotion_to_genres, omdb_calls>>
user_vars == <<users, session, pc, local>>

-----------------------------------------------------------------------------
(* Bounds *)

MaxMovies == 4      \* rows in movies.csv
NumWorkers == 2     \* request threads of the WSGI server

-----------------------------------------------------------------------------
(* Python str operations *)

UpperChars == <<"A", "B", "C", "D", "E", "F", "G", "H", "I", "J", "K", "L", "M",
                "N", "O", "P", "Q", "R", "S", "T", "U", "V", "W", "X", "Y", "Z">>
LowerChars == <<"a", "b", "c", "d", "e", "f", "g", "h", "i", "j", "k", "l", "m",
                "n", "o", "p", "q", "r", "s", "t", "u", "v", "w", "x", "y", "z">>

\* str.lower() on one character
lower_table ==
    [c \in {UpperChars[i] : i \in 1..Len(UpperChars)} |->
        LowerChars[CHOOSE i \in 1..Len(UpperChars) : UpperChars[i] = c]]

lower_char(c) == IF c \in DOMAIN lower_table THEN lower_table[c] ELSE c

\* str.lower()
lower(s) == [i \in 1..Len(s) |-> lower_char(s[i])]

\* str.strip(): drop leading and trailing whitespace
strip(s) ==
    LET keep == {i \in 1..Len(s) : s[i] # " "}
    IN IF keep = {} THEN <<>>
       ELSE LET first == CHOOSE i \in keep : \A j \in keep : i <= j
                last  == CHOOSE i \in keep : \A j \in keep : j <= i
            IN SubSeq(s, first, last)

\* str.split(";"): the pieces between separators; "".split(";") is [""]
RECURSIVE split(_)
split(s) ==
    LET seps == {i \in 1..Len(s) : s[i] = ";"}
    IN IF seps = {} THEN <<s>>
       ELSE LET k == CHOOSE i \in seps : \A j \in seps : i <= j
            IN <<SubSeq(s, 1, k - 1)>> \o split(SubSeq(s, k + 1, Len(s)))

\* Python's `needle in hay` on two strings: substring containment
str_in(needle, hay) ==
    LET n == Len(needle)
    IN \E i \in 0..(Len(hay) - n) : \A j \in 1..n : hay[i + j] = needle[j]

-----------------------------------------------------------------------------
(* movies.csv *)

required_columns == {"name", "year", "movie_rated", "run_length", "genres",
                     "release_date", "rating"}

\* An empty cell: pandas reads it as NaN.  For the genres column the empty
\* cell is the empty text; for the other columns it is the value NaN.
NaN == "NaN"

\* Python's None (a JSON null in a request body, a missing dict value)
None == "None"
EmptyCell == <<>>

\* The rows a movies.csv of the model may hold
RowPool == {
    [name |-> "X", year |-> "1999", movie_rated |-> "PG", run_length |-> "2h",
     genres |-> <<"W", "a", "r", "f", "a", "r", "e">>,
     release_date |-> "1999-01-01", rating |-> "7.0"],
    [name |-> "Y", year |-> "1999", movie_rated |-> "PG", run_length |-> "2h",
     genres |-> <<"A", "c", "t", "i", "o", "n", ";", "T", "h", "r", "i", "l", "l", "e", "r">>,
     release_date |-> "1999-01-01", rating |-> "7.0"],
    [name |-> "Z", year |-> "1999", movie_rated |-> "PG", run_length |-> "2h",
     genres |-> <<" ", "C", "o", "m", "e", "d", "y", " ", ";", "R", "O", "M", "A", "N", "C", "E">>,
     release_date |-> "1999-01-01", rating |-> NaN],
    [name |-> "W", year |-> "1999", movie_rated |-> "PG", run_length |-> "2h",
     genres |-> EmptyCell,
     release_date |-> "1999-01-01", rating |-> "7.0"] }

Datasets(n) == UNION {[1..k -> RowPool] : k \in 0..n}

\* The files the process may find: none, an unreadable one, one lacking a
\* required column, one with an extra column, or a well-formed one.
CsvFiles ==
    {[status |-> "missing", columns |-> {}, rows |-> <<>>],
     [status |-> "unreadable", columns |-> {}, rows |-> <<>>]}
    \cup {[status |-> "ok", columns |-> required_columns \ {c}, rows |-> r] :
            c \in {"genres", "rating"}, r \in Datasets(1)}
    \cup {[status |-> "ok", columns |-> required_columns \cup {"votes"}, rows |-> r] :
            r \in Datasets(1)}
    \cup {[status |-> "ok", columns |-> required_columns, rows |-> r] :
            r \in Datasets(MaxMovies)}

\* Series.astype(str): NaN becomes the text "nan"
astype_str(cell) == IF cell = EmptyCell THEN <<"n", "a", "n">> ELSE cell

\* line 47: movies['genres'] = movies['genres'].astype(str)
loaded_movies(rows) ==
    [i \in 1..Len(rows) |-> [rows[i] EXCEPT !.genres = astype_str(@)]]

\* lines 51-54: the set of stripped, lowercased pieces of every genres value
\* (dropna() runs after astype(str), when no NaN is left to drop)
all_genres_of(rows) ==
    UNION {{lower(strip(split(rows[i].genres)[j])) :
                j \in 1..Len(split(rows[i].genres))} : i \in 1..Len(rows)}

happy_genres == { <<"c", "o", "m", "e", "d", "y">>,
                  <<"a", "n", "i", "m", "a", "t", "i", "o", "n">>,
                  <<"m", "u", "s", "i", "c">>,
                  <<"r", "o", "m", "a", "n", "c", "e">>,
                  <<"f", "a", "n", "t", "a", "s", "y">> }
sad_genres == { <<"d", "r", "a", "m", "a">>,
                <<"b", "i", "o", "g", "r", "a", "p", "h", "y">>,
                <<"h", "i", "s", "t", "o", "r", "y">>,
                <<"w", "a", "r">> }
angry_genres == { <<"a", "c", "t", "i", "o", "n">>,
                  <<"t", "h", "r", "i", "l", "l", "e", "r">>,
                  <<"c", "r", "i", "m", "e">> }

\* lines 56-61.  The lists are kept as sets: the code only tests them for
\* emptiness and iterates them under any().
build_emotion_to_genres(all_genres) ==
    [e \in {"happy", "sad", "angry", "mixed"} |->
        CASE e = "happy" -> happy_genres
          [] e = "sad"   -> sad_genres
          [] e = "angry" -> angry_genres
          [] e = "mixed" -> all_genres]

NoResponse == [op |-> "none"]

Init ==
    /\ phase = "import"
    /\ csv \in CsvFiles
    /\ movies = <<>>
    /\ emotion_to_genres = <<>>
    /\ omdb_calls = <<>>
    /\ users = <<>>
    /\ session = "active"
    /\ pc = [w \in 1..NumWorkers |-> "idle"]
    /\ local = [w \in 1..NumWorkers |-> <<>>]
    /\ resp = NoResponse

\* lines 37-67: the import-time load; sys.exit() on any failure
Load ==
    /\ phase = "import"
    /\ IF csv.status # "ok" \/ ~(required_columns \subseteq csv.columns)
       THEN /\ phase' = "exited"
            /\ UNCHANGED <<movies, emotion_to_genres>>
       ELSE /\ movies' = loaded_movies(csv.rows)
            /\ emotion_to_genres' = build_emotion_to_genres(all_genres_of(movies'))
            /\ phase' = "serving"
    /\ UNCHANGED <<csv, omdb_calls, resp>>
    /\ UNCHANGED user_vars

-----------------------------------------------------------------------------
(* Poster lookup *)

Placeholder == "https://via.placeholder.com/200?text=No+Image"
PosterUrl == "https://m.media-amazon.com/images/poster.jpg"

\* What requests.get / response.json() can produce for one lookup
OmdbOutcomes == {"RequestException", "NotJson", "ResponseFalse",
                 "TrueNoPoster", "TruePoster"}
FailedOutcomes == OmdbOutcomes \ {"TruePoster"}

\* The lookup with data.get("Poster") given no default: a "True" answer that
\* carries no Poster field yields None
fetch_movie_poster_no_default(movie_name, outcome) ==
    CASE outcome = "RequestException" -> Placeholder
      [] outcome = "NotJson"          -> Placeholder
      [] outcome = "ResponseFalse"    -> Placeholder
      [] outcome = "TrueNoPoster"     -> None
      [] outcome = "TruePoster"       -> PosterUrl

\* lines 73-86
fetch_movie_poster(movie_name, outcome) ==
    CASE outcome = "RequestException" -> Placeholder   \* except branch
      [] outcome = "NotJson"          -> Placeholder   \* response.json() raises
      [] outcome = "ResponseFalse"    -> Placeholder   \* else branch
      [] outcome = "TrueNoPoster"     -> Placeholder   \* data.get default
      [] outcome = "TruePoster"       -> PosterUrl

-----------------------------------------------------------------------------
(* GET /recommend/<emotion> *)

Emotions == {"happy", "sad", "angry", "mixed", "Happy", "bored"}

SampleSize == 3

Min(a, b) == IF a <= b THEN a ELSE b

\* The lookup falling back to every genre instead of to the empty list
genres_for_fallback(emotion) ==
    IF emotion \in DOMAIN emotion_to_genres THEN emotion_to_genres[emotion]
    ELSE emotion_to_genres["mixed"]

\* line 127: emotion_to_genres.get(emotion, [])
genres_for(emotion) ==
    IF emotion \in DOMAIN emotion_to_genres THEN emotion_to_genres[emotion] ELSE {}

\* line 136: any(genre.lower().strip() in x.lower() for genre in genres)
genre_filter(genres, x) ==
    LET hay == lower(x)
    IN \E genre \in genres : LET needle == strip(lower(genre)) IN str_in(needle, hay)

\* lines 135-137: the index labels of the rows the boolean mask keeps
filtered_movies(genres) ==
    {i \in 1..Len(movies) : genre_filter(genres, movies[i].genres)}

\* The draw made with replace=True: n rows, repeats allowed
sample_with_replacement(rows, n) == [1..n -> rows]

\* line 144: DataFrame.sample(n, replace=False): n distinct rows, in any order
sample(rows, n) ==
    {s \in [1..n -> rows] : \A i, j \in 1..n : i # j => s[i] # s[j]}

\* lines 150-159: one entry of the JSON array; `row` is the index label of
\* the sampled row, which iterrows() yields and the JSON omits
recommendation(i, poster_url) ==
    [row |-> i,
     name |-> movies[i].name, year |-> movies[i].year,
     movie_rated |-> movies[i].movie_rated, run_length |-> movies[i].run_length,
     genres |-> movies[i].genres, release_date |-> movies[i].release_date,
     rating |-> movies[i].rating, image_url |-> poster_url]

\* line 148: what one call fetch_movie_poster(row['name']) can come to: for
\* each thing the service may do, whether the lookup failed and the URL returned
omdb_lookup(movie_name) ==
    {[t |-> movie_name, failed |-> outcome \in FailedOutcomes,
      poster_url |-> fetch_movie_poster(movie_name, outcome)] : outcome \in OmdbOutcomes}

\* lines 145-159: the loop over the sampled rows, one lookup per row; every
\* way the loop can run, as the lookups made and the entries appended
RECURSIVE recommendations(_)
recommendations(movie_samples) ==
    IF movie_samples = <<>> THEN {<<>>}
    ELSE {<<[call |-> [t |-> c.t, failed |-> c.failed],
             entry |-> recommendation(Head(movie_samples), c.poster_url)]>> \o rest :
            c \in omdb_lookup(movies[Head(movie_samples)].name),
            rest \in recommendations(Tail(movie_samples))}

NotFiltered == -1

\* lines 124-165.  resp.matched is the count printed at line 139, or
\* NotFiltered when the handler returned before filtering.
recommend_movies(emotion) ==
    /\ phase = "serving"
    /\ resp = NoResponse
    /\ \E genres \in {genres_for(emotion)} :
          IF genres = {}
          THEN /\ resp' = [op |-> "recommend", emotion |-> emotion, status |-> 400,
                           message |-> "Invalid emotion", body |-> <<>>,
                           matched |-> NotFiltered]
               /\ omdb_calls' = <<>>
          ELSE \E matched \in {filtered_movies(genres)} :
               IF matched = {}
               THEN /\ resp' = [op |-> "recommend", emotion |-> emotion, status |-> 200,
                                message |-> "", body |-> <<>>, matched |-> 0]
                    /\ omdb_calls' = <<>>
               ELSE \E n \in {Min(SampleSize, Cardinality(matched))} :
                    \E movie_samples \in sample(matched, n) :
                    \E run \in recommendations(movie_samples) :
                       /\ omdb_calls' = [k \in 1..n |-> run[k].call]
                       /\ resp' = [op |-> "recommend", emotion |-> emotion, status |-> 200,
                                   message |-> "",
                                   body |-> [k \in 1..n |-> run[k].entry],
                                   matched |-> Cardinality(matched)]
    /\ UNCHANGED <<phase, csv, movies, emotion_to_genres>>
    /\ UNCHANGED user_vars

\* line 171: the server writes the handler's return value to the client.
\* resp holds one response at a time: a handler step is taken once the
\* response before it has been written, which orders the steps of concurrent
\* handlers without excluding any order of them.
send_response ==
    /\ resp # NoResponse
    /\ resp' = NoResponse
    /\ omdb_calls' = <<>>
    /\ UNCHANGED <<phase, csv, movies, emotion_to_genres>>
    /\ UNCHANGED user_vars

-----------------------------------------------------------------------------
(* POST /signup and POST /login, over the one module-level session *)

Emails == {"a@x", "b@x"}
Passwords == {"p", "q"}

Workers == 1..NumWorkers

\* session.query(User).filter_by(**kw).first(): a comparison with None is
\* rendered IS NULL, which no row satisfies since both columns are NOT NULL
query_by_email(email) ==
    {i \in 1..Len(users) : email # None /\ users[i].email = email}
query_by_credentials(email, password) ==
    {i \in 1..Len(users) : /\ email # None /\ users[i].email = email
                           /\ password # None /\ users[i].password = password}

\* lines 27-29: the constraints the INSERT of a row is checked against
violates_constraints(email, password) ==
    \/ email = None                       \* email nullable=False
    \/ password = None                    \* password nullable=False
    \/ \E i \in 1..Len(users) : users[i].email = email   \* email unique=True

signup_response(email, password, status, message) ==
    [op |-> "signup", email |-> email, password |-> password,
     status |-> status, message |-> message]

\* signup() runs in two steps on a worker thread, the existence check and the
\* insert with its commit; other threads may run between the two.
\*
\* lines 91-98: the existence check.  A session whose flush has failed stays
\* inactive until session.rollback(), which the code never calls: every later
\* statement on it raises, and the handler's except branch answers 500.
signup_query(w, email, password) ==
    /\ phase = "serving"
    /\ pc[w] = "idle"
    /\ resp = NoResponse
    /\ IF session # "active"
       THEN /\ resp' = signup_response(email, password, 500, "Internal Server Error")
            /\ UNCHANGED <<pc, local>>
       ELSE IF query_by_email(email) # {}
       THEN /\ resp' = signup_response(email, password, 400, "User already exists")
            /\ UNCHANGED <<pc, local>>
       ELSE /\ pc' = [pc EXCEPT ![w] = "insert"]
            /\ local' = [local EXCEPT ![w] = [email |-> email, password |-> password]]
            /\ UNCHANGED resp
    /\ UNCHANGED <<users, session>>
    /\ UNCHANGED movie_vars

\* lines 100-106: session.add(new_user); session.commit()
signup_commit(w) ==
    /\ phase = "serving"
    /\ pc[w] = "insert"
    /\ resp = NoResponse
    /\ LET email == local[w].email
           password == local[w].password
       IN IF session # "active"
          THEN /\ resp' = signup_response(email, password, 500, "Internal Server Error")
               /\ UNCHANGED <<users, session>>
          ELSE IF violates_constraints(email, password)
          THEN /\ session' = "inactive"
               /\ resp' = signup_response(email, password, 500, "Internal Server Error")
               /\ UNCHANGED users
          ELSE /\ users' = Append(users, [id |-> Len(users) + 1, email |-> email,
                                          password |-> password])
               /\ resp' = signup_response(email, password, 200,
                                          "User registered successfully")
               /\ UNCHANGED session
    /\ pc' = [pc EXCEPT ![w] = "idle"]
    /\ local' = [local EXCEPT ![w] = <<>>]
    /\ UNCHANGED movie_vars

login_response(email, password, status, message) ==
    [op |-> "login", email |-> email, password |-> password,
     status |-> status, message |-> message]

\* lines 109-121
login(w, email, password) ==
    /\ phase = "serving"
    /\ pc[w] = "idle"
    /\ resp = NoResponse
    /\ resp' = IF session # "active"
               THEN login_response(email, password, 500, "Internal Server Error")
               ELSE IF query_by_credentials(email, password) # {}
               THEN login_response(email, password, 200, "Login successful")
               ELSE login_response(email, password, 401, "Invalid email or password")
    /\ UNCHANGED user_vars
    /\ UNCHANGED movie_vars

\* The process once it serves: a dataset has been loaded
InitServing ==
    /\ phase = "serving"
    /\ csv \in {f \in CsvFiles : f.status = "ok" /\ f.columns = required_columns
                                 /\ Len(f.rows) <= 1}
    /\ movies = loaded_movies(csv.rows)
    /\ emotion_to_genres = build_emotion_to_genres(all_genres_of(movies))
    /\ omdb_calls = <<>>
    /\ users = <<>>
    /\ session = "active"
    /\ pc = [w \in Workers |-> "idle"]
    /\ local = [w \in Workers |-> <<>>]
    /\ resp = NoResponse

NextMovies ==
    \/ Load
    \/ send_response
    \/ \E emotion \in Emotions : recommend_movies(emotion)

SpecMovies == Init /\ [][NextMovies]_vars

NextUsers ==
    \/ send_response
    \/ \E w \in Workers, email \in Emails \cup {None}, password \in Passwords \cup {None} :
          signup_query(w, email, password)
    \/ \E w \in Workers : signup_commit(w)
    \/ \E w \in Workers, email \in Emails \cup {None}, password \in Passwords \cup {None} :
          login(w, email, password)

SpecUsers == InitServing /\ [][NextUsers]_vars

\* Signup requests with well-formed bodies only, on any number of threads
NextSignups ==
    \/ send_response
    \/ \E w \in Workers, email \in Emails, password \in Passwords :
          signup_query(w, email, password)
    \/ \E w \in Workers : signup_commit(w)

SpecSignups == InitServing /\ [][NextSignups]_vars

-----------------------------------------------------------------------------
(* Properties *)

RecognisedEmotions == {"happy", "sad", "angry", "mixed"}

\* The pieces of a genres value: split on ';', each piece trimmed and lowercased
genre_tokens(x) == {lower(strip(split(x)[j])) : j \in 1..Len(split(x))}

\* Exact-token matching: some piece of the record's genres equals a query token
token_filtered(genres) ==
    {i \in 1..Len(movies) : genre_tokens(movies[i].genres) \cap genres # {}}

Answered200 == resp.op = "recommend" /\ resp.status = 200

\* C1: recommend filters by exact token membership: the rows it keeps for an
\* emotion are exactly those with a genre piece (split on ';', trimmed,
\* lowercased) equal to one of the emotion's genre tokens; a row whose only
\* genre is "Warfare" is not kept for "sad".
C1_ExactTokenMembership ==
    Answered200 =>
        /\ resp.matched = Cardinality(token_filtered(genres_for(resp.emotion)))
        /\ \A k \in 1..Len(resp.body) :
              resp.body[k].row \in token_filtered(genres_for(resp.emotion))

\* C2: a successful recommend returns exactly min(3, M) entries, M the number
\* of rows the filter keeps for the emotion; the entries are pairwise distinct
\* rows of the dataset, each one kept by the filter and copied unchanged.
C2_SampleOfMatching ==
    Answered200 =>
        LET kept == filtered_movies(genres_for(resp.emotion))
        IN /\ Len(resp.body) = Min(3, Cardinality(kept))
           /\ \A i, j \in 1..Len(resp.body) :
                 i # j => resp.body[i].row # resp.body[j].row
           /\ \A k \in 1..Len(resp.body) :
                 /\ resp.body[k].row \in kept
                 /\ \A f \in required_columns :
                       resp.body[k][f] = movies[resp.body[k].row][f]

\* a request answered with three entries out of more than three matching rows
C2_Witness ==
    /\ Answered200
    /\ Len(resp.body) = 3
    /\ resp.matched > 3

\* C3: an emotion other than happy, sad, angry, mixed (case variants included)
\* is answered 400 "Invalid emotion", before any filtering and with no poster
\* lookup.
C3_InvalidEmotion ==
    (resp.op = "recommend" /\ resp.emotion \notin RecognisedEmotions) =>
        /\ resp.status = 400
        /\ resp.message = "Invalid emotion"
        /\ resp.body = <<>>
        /\ resp.matched = NotFiltered
        /\ omdb_calls = <<>>

\* "Happy" rejected although the dataset holds a comedy
C3_Witness ==
    /\ resp.op = "recommend"
    /\ resp.emotion = "Happy"
    /\ resp.status = 400
    /\ filtered_movies(happy_genres) # {}

\* C4: a recognised emotion whose genres match no row is answered 200 with an
\* empty array, never an error; "mixed" on a dataset of zero rows included.
C4_NoMatchIsEmptyArray ==
    (/\ resp.op = "recommend"
     /\ resp.emotion \in RecognisedEmotions
     /\ filtered_movies(genres_for(resp.emotion)) = {}) =>
        /\ resp.status = 200
        /\ resp.body = <<>>

\* C5: after a successful load happy, sad and angry map to their fixed
\* non-empty lists and "mixed" maps to exactly the genre universe: the pieces
\* of the genres cells of the file's records, and no other token.
C5_MixedIsGenreUniverse ==
    phase = "serving" =>
        /\ emotion_to_genres["happy"] = happy_genres /\ happy_genres # {}
        /\ emotion_to_genres["sad"] = sad_genres /\ sad_genres # {}
        /\ emotion_to_genres["angry"] = angry_genres /\ angry_genres # {}
        /\ emotion_to_genres["mixed"] =
              UNION {genre_tokens(csv.rows[i].genres) :
                        i \in {j \in 1..Len(csv.rows) : csv.rows[j].genres # EmptyCell}}

\* an empty cell of the file, read as NaN
empty_cell(f, cell) == IF f = "genres" THEN cell = EmptyCell ELSE cell = NaN

\* C6: the process serves only with a valid dataset: a file that is missing,
\* unreadable, short of a required column, or holding a record with an empty
\* required field never reaches the serving state.
C6_ServingImpliesValidDataset ==
    phase = "serving" =>
        /\ csv.status = "ok"
        /\ required_columns \subseteq csv.columns
        /\ \A i \in 1..Len(csv.rows) : \A f \in required_columns :
              ~empty_cell(f, csv.rows[i][f])

\* C9: a poster lookup that fails in any way yields the placeholder URL, and a
\* recommend request is answered 200 with one entry per lookup whatever the
\* lookups did.
C9_PosterNeverFails ==
    /\ resp.op = "recommend" => resp.status \in {200, 400}
    /\ Answered200 =>
          /\ Len(omdb_calls) = Len(resp.body)
          /\ \A k \in 1..Len(resp.body) :
                /\ omdb_calls[k].t = resp.body[k].name
                /\ omdb_calls[k].failed => resp.body[k].image_url = Placeholder

\* three entries returned, every one of their lookups having failed
C9_Witness ==
    /\ Answered200
    /\ Len(resp.body) = 3
    /\ \A k \in 1..3 : omdb_calls[k].failed /\ resp.body[k].image_url = Placeholder

has_user(email) == \E i \in 1..Len(users) : users[i].email = email

\* C7: a signup that begins when the store already holds its email (an
\* earlier signup for it having returned 200) is answered 400 "User already
\* exists" and leaves the store as it was.
C7_SecondSignupRejected ==
    [][(/\ resp = NoResponse
        /\ resp' # NoResponse
        /\ resp'.op = "signup"
        /\ pc' = pc
        /\ has_user(resp'.email)) =>
            /\ resp'.status = 400
            /\ resp'.message = "User already exists"
            /\ users' = users]_vars

\* C8: login answers 200 exactly when the store holds a row with the submitted
\* email and password, and 401 otherwise.
C8_LoginExactMatch ==
    resp.op = "login" =>
        /\ resp.status \in {200, 401}
        /\ resp.status = 200 <=>
              \E i \in 1..Len(users) : /\ users[i].email = resp.email
                                       /\ users[i].password = resp.password

\* C10: signup requests racing on one email behave as if run one after
\* another: each is answered 200 or 400, never 500, and the store holds at
\* most one row per email.
C10_ConcurrentSignupsSerialised ==
    /\ resp.op = "signup" => resp.status \in {200, 400}
    /\ \A i, j \in 1..Len(users) : users[i].email = users[j].email => i = j

=============================================================================
